---------------------------- MODULE Spec2Model ----------------------------
(***************************************************************************)
(* The glyph atlas of eat-chat (src/src/atlas.rs): the glyph cache, the    *)
(* shelf packer (location_for), the lazily created texture page and the    *)
(* rasterizer the atlas owns.  The rasterizer (crossfont) and the GPU      *)
(* queue (wgpu) are collaborators: the rasterizer's state is its            *)
(* scale factor and the loaded font, and what it answers to a call is an   *)
(* input of the call; the queue is the log of the texture writes issued on *)
(* it.                                                                     *)
(*                                                                         *)
(* Every method takes &mut self and runs on one thread, so a method is one *)
(* step.  An unwrap() on Err or a panic!() aborts the process: status      *)
(* becomes "panicked" and no step follows; what the method changed before  *)
(* the panic stays changed.                                                *)
(***************************************************************************)
EXTENDS Integers, Sequences, FiniteSets, TLC

(* ------------------------------ bounds -------------------------------- *)

\* Side of a texture page in pixels.  The source's page is 4096 x 4096; the
\* model packs bitmaps of 10..190 px into a page scaled down to this side,
\* so that a row and a page fill up after a few placements.
PageSize == 100

\* Number of distinct glyph keys (characters of the one loaded font).
NumKeys == 2

\* Longest pixel buffer, in whole pixels, the rasterizer hands over under
\* SpecNormalize.
MaxPixels == 2

\* Most cells the screen holds under SpecScreen (the source's Vec<Cell> is
\* unbounded), and the longest string print_string is given.
MaxCells == 3
MaxStr == 2

\* Size of the instance buffer in bytes.  The source's buffer is 1024*1024
\* bytes (15420 instances); the model's is scaled down to hold two, so that
\* MaxCells cells pass it.
InstanceBufferSize == 150

\* Capacity of the ring buffer read_chat is given the producer of, and the
\* most frames the socket yields under SpecChat.
RingCap == 1
MaxFrames == 2

(* ----------------------------- inputs --------------------------------- *)

Keys == 1..NumKeys

\* The keys asked for under SpecPack: one more, so that a shelf gets a third
\* bitmap.
PackKeys == 1..(NumKeys + 1)

\* Bitmap sizes the rasterizer produces at scale factor 1.
BaseBitmaps == {[width |-> 10, height |-> 20],
                [width |-> 95, height |-> 20],
                [width |-> 50, height |-> 30]}

\* Scale factors (device pixel ratios) the window reports.
Scales == {1, 2}

\* metrics.line_height as u32 of the fonts that can be loaded.
LineHeights == {0, 25}

\* Font descriptors: one the font system resolves, one it does not, and one
\* it resolves to a font without usable metrics.
FontDescs == {"monospace", "unresolvable", "nometrics"}

NoGlyph == [width |-> 0, height |-> 0]

\* RGB pixels, and the stray bytes a buffer can end with.
Pixels == {<<10, 20, 30>>, <<0, 0, 0>>, <<255, 0, 128>>}
Tails == {<< >>, <<7>>, <<7, 9>>}

RECURSIVE Flatten(_)
Flatten(ps) == IF Len(ps) = 0 THEN << >> ELSE Head(ps) \o Flatten(Tail(ps))

\* The byte strings of a BitmapBuffer: up to MaxPixels pixels and a tail.
ByteStrings ==
    {Flatten(ps) \o t : ps \in UNION {[1..n -> Pixels] : n \in 0..MaxPixels},
                        t \in Tails}

\* crossfont::BitmapBuffer: Rgb(Vec<u8>) | Rgba(Vec<u8>)
Buffers == [format : {"Rgb", "Rgba"}, bytes : ByteStrings]

(* ------------------------------ state --------------------------------- *)

VARIABLES
    glyphs,          \* Atlas.glyphs: HashMap<GlyphKey, Glyph>
    textures,        \* Atlas.textures: Vec<Texture>, each [width, height]
    active_texture,  \* Atlas.active_texture
    v_offset,        \* Atlas.v_offset
    h_offset,        \* Atlas.h_offset
    row_height,      \* Atlas.row_height
    h_size,          \* Atlas.h_size
    v_size,          \* Atlas.v_size
    dpr,             \* the rasterizer's scale factor
    loaded,          \* the rasterizer holds the font the keys name
    placements,      \* log: what location_for returned, in call order
    writes,          \* log: the queue's write_texture calls, in issue order
    rasterized,      \* log: the keys handed to Rasterizer::get_glyph
    returned,        \* log: key -> the records get_glyph has returned for it
    last,            \* the last get_glyph call, or the call that panicked
    status,          \* "running" | "panicked"
    cells,           \* Screen.cells: Vec<Cell>
    instance_buffer, \* Screen.instance_buffer: the instances written to it
    pending,         \* print_string's position: the chars still to print
    submitted,       \* the last queue.submit: the instances its draw call
                     \* reads and the number of texture writes issued before
    diffuse_bind_group, \* Screen.diffuse_bind_group: the index of the page
                     \* whose view it binds, NoTexture before Screen::new
                     \* has built it
    chat_status,     \* read_chat: "connecting" | "reading" | "ok" | "err"
    received,        \* log: the frames socket.next() has yielded, in order
    todo,            \* read_chat's position in the for loop: the payloads of
                     \* the current frame still to go through
    arrivals,        \* log: the non-empty payloads gone through, each with
                     \* the room the ring buffer had when it was its turn
    prod,            \* the ring buffer behind prod: Producer<String>
    popped           \* log: what the ring buffer's consumer has taken out

atlasVars == <<glyphs, textures, active_texture, v_offset, h_offset, row_height,
               h_size, v_size>>
rastVars == <<dpr, loaded>>
logVars == <<placements, writes, rasterized, returned>>
screenVars == <<cells, instance_buffer, pending, submitted, diffuse_bind_group>>
chatVars == <<chat_status, received, todo, arrivals, prod, popped>>
rendererVars == <<atlasVars, rastVars, logVars, last, status, screenVars>>
vars == <<rendererVars, chatVars>>

\* const DEFAULT_TEXTURE_SIZE: u32 (4096 in the source, scaled to PageSize)
DEFAULT_TEXTURE_SIZE == PageSize

\* The packer cursor and page size, as location_for reads them.
Cursor == [v_offset |-> v_offset, h_offset |-> h_offset,
           row_height |-> row_height, h_size |-> h_size, v_size |-> v_size]

NoCall == [op |-> "new"]

\* No bind group has been built yet.
NoTexture == 0 - 1

\* No command buffer has been submitted yet.
NoSubmit == [draws |-> << >>, nwrites |-> 0]

(* --------------------------- the rasterizer --------------------------- *)

\* Rasterizer::load_font(font, size): Ok(FontKey) when the font system
\* resolves the descriptor, Err otherwise.
rasterizer_load_font(desc) == [ok |-> desc # "unresolvable"]

\* Rasterizer::metrics(font_key, size): Err for a font without usable
\* metrics; the descent scales with the scale factor.
rasterizer_metrics(desc, lh) ==
    [ok |-> desc # "nometrics", line_height |-> lh, descent |-> 0 - 5 * dpr]

\* Rasterizer::get_glyph(key), where base is what the font holds for the key
\* at scale 1: Err when the key's font was never loaded or the font has no
\* glyph for the character; otherwise the bitmap, scaled by the scale factor.
rasterizer_get_glyph(key, base) ==
    IF ~loaded \/ base = NoGlyph
      THEN [ok |-> FALSE, width |-> 0, height |-> 0, top |-> 0, left |-> 0]
      ELSE [ok |-> TRUE,
            width |-> base.width * dpr,
            height |-> base.height * dpr,
            top |-> base.height * dpr,
            left |-> 1]

(* ------------------------------ helpers ------------------------------- *)

RECURSIVE GCD(_, _)
GCD(a, b) == IF b = 0 THEN a ELSE GCD(b, a % b)

\* a as f32 / b as f32: the quotient, kept as a fraction in lowest terms
\* (exact in f32 for the source's power-of-two page size).
Div(a, b) == LET g == GCD(a, b) IN [num |-> a \div g, den |-> b \div g]

\* p + q <= 1 for fractions p, q
SumAtMostOne(p, q) == p.num * q.den + q.num * p.den <= p.den * q.den

\* The fraction p equals n / d.
FracIs(p, n, d) == p.num * d = n * p.den

(* ------------------------------ the atlas ----------------------------- *)

\* A rollover that rewinds the horizontal cursor without opening a shelf.
location_for_rewind(self, width, height) ==
    LET grow == self.row_height < height
        outta == grow /\ (self.v_offset + self.row_height) > height
        vo == IF grow THEN self.v_offset + self.row_height ELSE self.v_offset
        rh == IF grow THEN height ELSE self.row_height
        fits == self.h_offset + width < self.h_size
    IN  IF outta
          THEN [panic |-> TRUE, x |-> 0, y |-> 0, v_offset |-> self.v_offset,
                h_offset |-> self.h_offset, row_height |-> self.row_height]
          ELSE [panic |-> FALSE, x |-> IF fits THEN self.h_offset ELSE 0,
                y |-> vo, v_offset |-> vo,
                h_offset |-> IF fits THEN self.h_offset + width ELSE 0,
                row_height |-> rh]

\* A shelf growth that advances v_offset by the requested height.
location_for_height(self, width, height) ==
    LET grow == self.row_height < height
        outta == grow /\ (self.v_offset + self.row_height) > height
        vo == IF grow THEN self.v_offset + height ELSE self.v_offset
        rh == IF grow THEN height ELSE self.row_height
        fits == self.h_offset + width < self.h_size
    IN  IF outta
          THEN [panic |-> TRUE, x |-> 0, y |-> 0, v_offset |-> self.v_offset,
                h_offset |-> self.h_offset, row_height |-> self.row_height]
          ELSE [panic |-> FALSE, x |-> self.h_offset, y |-> vo, v_offset |-> vo,
                h_offset |-> IF fits THEN self.h_offset + width ELSE self.h_offset,
                row_height |-> rh]

\* A fit test that takes a bitmap filling the row exactly as fitting.
location_for_le(self, width, height) ==
    LET grow == self.row_height < height
        outta == grow /\ (self.v_offset + self.row_height) > height
        vo == IF grow THEN self.v_offset + self.row_height ELSE self.v_offset
        rh == IF grow THEN height ELSE self.row_height
        fits == self.h_offset + width <= self.h_size
    IN  IF outta
          THEN [panic |-> TRUE, x |-> 0, y |-> 0, v_offset |-> self.v_offset,
                h_offset |-> self.h_offset, row_height |-> self.row_height]
          ELSE [panic |-> FALSE, x |-> self.h_offset, y |-> vo, v_offset |-> vo,
                h_offset |-> IF fits THEN self.h_offset + width ELSE self.h_offset,
                row_height |-> rh]

\* Atlas::location_for(&mut self, width, height) -> (u32, u32): the returned
\* (x, y), the cursor as the call leaves it, and whether it panicked.
location_for(self, width, height) ==
    LET grow == self.row_height < height
        outta == grow /\ (self.v_offset + self.row_height) > height
        vo == IF grow THEN self.v_offset + self.row_height ELSE self.v_offset
        rh == IF grow THEN height ELSE self.row_height
        fits == self.h_offset + width < self.h_size
    IN  IF outta
          THEN [panic |-> TRUE, x |-> 0, y |-> 0, v_offset |-> self.v_offset,
                h_offset |-> self.h_offset, row_height |-> self.row_height]
          ELSE [panic |-> FALSE, x |-> self.h_offset, y |-> vo, v_offset |-> vo,
                h_offset |-> IF fits THEN self.h_offset + width ELSE self.h_offset,
                row_height |-> rh]

\* A page creation on every call.
get_or_create_texture_always(texs, active) ==
    [textures |-> Append(texs, [width |-> DEFAULT_TEXTURE_SIZE,
                                height |-> DEFAULT_TEXTURE_SIZE]),
     active_texture |-> (Len(texs) + 1) - 1]

\* A page creation that forgets the - 1 of textures.len() - 1.
get_or_create_texture_len(texs, active) ==
    IF active >= Len(texs)
      THEN [textures |-> Append(texs, [width |-> DEFAULT_TEXTURE_SIZE,
                                       height |-> DEFAULT_TEXTURE_SIZE]),
            active_texture |-> Len(texs) + 1]
      ELSE [textures |-> texs, active_texture |-> active]

\* Atlas::get_or_create_texture: the page list and active index it leaves.
get_or_create_texture(texs, active) ==
    IF active >= Len(texs)
      THEN [textures |-> Append(texs, [width |-> DEFAULT_TEXTURE_SIZE,
                                       height |-> DEFAULT_TEXTURE_SIZE]),
            active_texture |-> (Len(texs) + 1) - 1]
      ELSE [textures |-> texs, active_texture |-> active]

\* A cache test that never finds the key.
contains_key_never(key) == FALSE

\* The test at the head of get_glyph: self.glyphs.contains_key(&key)
contains_key(key) == key \in DOMAIN glyphs

\* A max that returns the smaller byte.
Max_smaller(a, b) == IF a >= b THEN b ELSE a

\* std::cmp::max on u8
Max(a, b) == IF a >= b THEN a ELSE b

\* The Rgb arm's loop over v.chunks(3): a chunk of three bytes pushes r, g, b
\* and max(max(r, g), b); a shorter last chunk prints "Not chunk aligned" and
\* pushes nothing.
RECURSIVE rgb_chunks(_)
rgb_chunks(v) ==
    IF Len(v) = 0 THEN << >>
    ELSE IF Len(v) >= 3
      THEN <<v[1], v[2], v[3], Max(Max(v[1], v[2]), v[3])>>
           \o rgb_chunks(SubSeq(v, 4, Len(v)))
      ELSE << >>

\* A conversion that runs the Rgb loop on every buffer.
to_rgba_always(buffer) == rgb_chunks(buffer.bytes)

\* The "Convert to rgba" match on rast_glyph.buffer: the bytes get_glyph
\* hands to write_texture.
to_rgba(buffer) ==
    IF buffer.format = "Rgba" THEN buffer.bytes ELSE rgb_chunks(buffer.bytes)

\* A write_texture that is not issued on the queue.
write_texture_dropped(queue, w) == queue

\* queue.write_texture(..): the queue's log with the write appended.
write_texture(queue, w) == Append(queue, w)

\* A record whose UV origin has its axes swapped.
MakeGlyph_swapped(bm, x, y, descent) ==
    [uv_top |-> Div(x, v_size),
     uv_left |-> Div(y, h_size),
     uv_height |-> Div(bm.height, v_size),
     uv_width |-> Div(bm.width, h_size),
     top |-> bm.top - descent,
     left |-> bm.left,
     width |-> bm.width,
     height |-> bm.height]

\* The Glyph record get_glyph builds for a bitmap placed at (x, y).
MakeGlyph(bm, x, y, descent) ==
    [uv_top |-> Div(y, v_size),
     uv_left |-> Div(x, h_size),
     uv_height |-> Div(bm.height, v_size),
     uv_width |-> Div(bm.width, h_size),
     top |-> bm.top - descent,
     left |-> bm.left,
     width |-> bm.width,
     height |-> bm.height]

\* Atlas::new(scale_factor)
Init ==
    /\ glyphs = << >>
    /\ textures = << >>
    /\ active_texture = 0
    /\ v_offset = 0
    /\ h_offset = 0
    /\ row_height = 0
    /\ h_size = DEFAULT_TEXTURE_SIZE
    /\ v_size = DEFAULT_TEXTURE_SIZE
    /\ dpr \in Scales
    /\ loaded = FALSE
    /\ placements = << >>
    /\ writes = << >>
    /\ rasterized = << >>
    /\ returned = [k \in PackKeys |-> {}]
    /\ last = NoCall
    /\ status = "running"
    /\ cells = << >>
    /\ instance_buffer = << >>
    /\ pending = << >>
    /\ submitted = NoSubmit
    /\ diffuse_bind_group = NoTexture
    /\ chat_status = "connecting"
    /\ received = << >>
    /\ todo = << >>
    /\ arrivals = << >>
    /\ prod = << >>
    /\ popped = << >>

\* A load_font that also restarts the packer cursor.
LoadFont_restart(desc, lh) ==
    /\ status = "running"
    /\ rasterizer_load_font(desc).ok
    /\ rasterizer_metrics(desc, lh).ok
    /\ loaded' = TRUE
    /\ row_height' = lh
    /\ h_offset' = 0
    /\ v_offset' = 0
    /\ UNCHANGED <<glyphs, textures, active_texture, h_size, v_size, dpr,
                   logVars, last, status>>

\* Atlas::load_font(font, size); lh is metrics.line_height as u32 of the
\* font at that size.
LoadFont(desc, lh) ==
    /\ status = "running"
    /\ LET f == rasterizer_load_font(desc)
           m == rasterizer_metrics(desc, lh)
       IN  IF ~f.ok
             THEN \* rasterizer.load_font(font, font_size).unwrap() panics
                  /\ status' = "panicked"
                  /\ last' = [op |-> "load_font", desc |-> desc,
                              outcome |-> "panic_load_font"]
                  /\ UNCHANGED <<atlasVars, rastVars, logVars>>
             ELSE IF ~m.ok
             THEN \* rasterizer.metrics(regular, font_size).unwrap() panics
                  /\ status' = "panicked"
                  /\ loaded' = TRUE
                  /\ last' = [op |-> "load_font", desc |-> desc,
                              outcome |-> "panic_metrics"]
                  /\ UNCHANGED <<atlasVars, dpr, logVars>>
             ELSE /\ loaded' = TRUE
                  /\ row_height' = m.line_height
                  /\ UNCHANGED <<glyphs, textures, active_texture, v_offset,
                                 h_offset, h_size, v_size, dpr, logVars, last,
                                 status>>

\* Atlas::texture_view(device)
TextureView ==
    /\ status = "running"
    /\ LET t == get_or_create_texture(textures, active_texture)
       IN  /\ textures' = t.textures
           /\ active_texture' = t.active_texture
    /\ UNCHANGED <<glyphs, v_offset, h_offset, row_height, h_size, v_size,
                   rastVars, logVars, last, status>>

\* A set_scale_factor that drops the glyphs rasterized at the old scale.
SetScaleFactor_invalidate(s) ==
    /\ status = "running"
    /\ dpr' = s
    /\ glyphs' = IF s = dpr THEN glyphs ELSE << >>
    /\ UNCHANGED <<textures, active_texture, v_offset, h_offset, row_height,
                   h_size, v_size, loaded, logVars, last, status>>

\* Atlas::set_scale_factor(scale_factor)
SetScaleFactor(s) ==
    /\ status = "running"
    /\ dpr' = s
    /\ UNCHANGED <<atlasVars, loaded, logVars, last, status>>

\* A fast path that takes the None arm of its match.
CacheHit_none(key) ==
    /\ last' = [op |-> "get_glyph", key |-> key, hit |-> TRUE,
                pre |-> Cursor, ntex |-> Len(textures), outcome |-> "none"]
    /\ UNCHANGED <<atlasVars, rastVars, logVars, status>>

\* A fast path that uploads the cached glyph's rectangle again.
CacheHit_reupload(key) ==
    /\ returned' = [returned EXCEPT ![key] = @ \cup {glyphs[key]}]
    /\ last' = [op |-> "get_glyph", key |-> key, hit |-> TRUE,
                pre |-> Cursor, ntex |-> Len(textures),
                outcome |-> "some", glyph |-> glyphs[key]]
    /\ writes' = Append(writes,
           [key |-> key, texture |-> active_texture, x |-> 0, y |-> 0,
            width |-> glyphs[key].width, height |-> glyphs[key].height])
    /\ UNCHANGED <<atlasVars, rastVars, placements, rasterized, status>>

\* The fast path of get_glyph: return the clone of the cached record.
CacheHit(key) ==
    /\ returned' = [returned EXCEPT ![key] = @ \cup {glyphs[key]}]
    /\ last' = [op |-> "get_glyph", key |-> key, hit |-> TRUE,
                pre |-> Cursor, ntex |-> Len(textures),
                outcome |-> "some", glyph |-> glyphs[key]]
    /\ UNCHANGED <<atlasVars, rastVars, placements, writes, rasterized, status>>

\* A miss path that opens the page before it asks the rasterizer.
CacheMiss_page_first(key, base, buffer) ==
    LET bm == rasterizer_get_glyph(key, base)
        loc == location_for(Cursor, bm.width, bm.height)
        m == rasterizer_metrics("monospace", row_height)
        t == get_or_create_texture(textures, active_texture)
        buff == to_rgba(buffer)
        g == MakeGlyph(bm, loc.x, loc.y, m.descent)
    IN  /\ rasterized' = Append(rasterized, key)
        /\ IF ~bm.ok
             THEN \* rasterizer.get_glyph(key).unwrap() panics
                  /\ status' = "panicked"
                  /\ last' = [op |-> "get_glyph", key |-> key,
                              hit |-> FALSE, pre |-> Cursor,
                              ntex |-> Len(textures), bitmap |-> bm,
                              outcome |-> "panic_rasterize"]
                  /\ textures' = t.textures
                  /\ active_texture' = t.active_texture
                  /\ UNCHANGED <<glyphs, v_offset, h_offset, row_height,
                                 h_size, v_size, rastVars, placements,
                                 writes, returned>>
           ELSE IF loc.panic
             THEN \* panic!("Ran out of texture space")
                  /\ status' = "panicked"
                  /\ last' = [op |-> "get_glyph", key |-> key,
                              hit |-> FALSE, pre |-> Cursor,
                              ntex |-> Len(textures), bitmap |-> bm,
                              outcome |-> "panic_location_for"]
                  /\ UNCHANGED <<atlasVars, rastVars, placements,
                                 writes, returned>>
             ELSE /\ v_offset' = loc.v_offset
                  /\ h_offset' = loc.h_offset
                  /\ row_height' = loc.row_height
                  /\ placements' = Append(placements,
                         [key |-> key, x |-> loc.x, y |-> loc.y,
                          width |-> bm.width, height |-> bm.height,
                          pre |-> Cursor,
                          post |-> [v_offset |-> loc.v_offset,
                                    h_offset |-> loc.h_offset,
                                    row_height |-> loc.row_height]])
                  /\ textures' = t.textures
                  /\ active_texture' = t.active_texture
                  /\ writes' = write_texture(writes,
                         [key |-> key, texture |-> t.active_texture,
                          x |-> loc.x, y |-> loc.y,
                          width |-> bm.width, height |-> bm.height])
                  /\ glyphs' = (key :> g) @@ glyphs
                  /\ returned' = [returned EXCEPT ![key] = @ \cup {g}]
                  /\ last' = [op |-> "get_glyph", key |-> key,
                              hit |-> FALSE, pre |-> Cursor,
                              ntex |-> Len(textures), bitmap |-> bm,
                              outcome |-> "some", glyph |-> g,
                              buffer |-> buffer, data |-> buff]
                  /\ UNCHANGED <<h_size, v_size, rastVars, status>>

\* The miss path of get_glyph: rasterize, place, convert, upload, insert.
CacheMiss(key, base, buffer) ==
    LET bm == rasterizer_get_glyph(key, base)
        loc == location_for(Cursor, bm.width, bm.height)
        m == rasterizer_metrics("monospace", row_height)
        t == get_or_create_texture(textures, active_texture)
        buff == to_rgba(buffer)
        g == MakeGlyph(bm, loc.x, loc.y, m.descent)
    IN  /\ rasterized' = Append(rasterized, key)
        /\ IF ~bm.ok
             THEN \* rasterizer.get_glyph(key).unwrap() panics
                  /\ status' = "panicked"
                  /\ last' = [op |-> "get_glyph", key |-> key,
                              hit |-> FALSE, pre |-> Cursor,
                              ntex |-> Len(textures), bitmap |-> bm,
                              outcome |-> "panic_rasterize"]
                  /\ UNCHANGED <<atlasVars, rastVars, placements,
                                 writes, returned>>
           ELSE IF loc.panic
             THEN \* panic!("Ran out of texture space")
                  /\ status' = "panicked"
                  /\ last' = [op |-> "get_glyph", key |-> key,
                              hit |-> FALSE, pre |-> Cursor,
                              ntex |-> Len(textures), bitmap |-> bm,
                              outcome |-> "panic_location_for"]
                  /\ UNCHANGED <<atlasVars, rastVars, placements,
                                 writes, returned>>
             ELSE /\ v_offset' = loc.v_offset
                  /\ h_offset' = loc.h_offset
                  /\ row_height' = loc.row_height
                  /\ placements' = Append(placements,
                         [key |-> key, x |-> loc.x, y |-> loc.y,
                          width |-> bm.width, height |-> bm.height,
                          pre |-> Cursor,
                          post |-> [v_offset |-> loc.v_offset,
                                    h_offset |-> loc.h_offset,
                                    row_height |-> loc.row_height]])
                  /\ textures' = t.textures
                  /\ active_texture' = t.active_texture
                  /\ writes' = write_texture(writes,
                         [key |-> key, texture |-> t.active_texture,
                          x |-> loc.x, y |-> loc.y,
                          width |-> bm.width, height |-> bm.height])
                  /\ glyphs' = (key :> g) @@ glyphs
                  /\ returned' = [returned EXCEPT ![key] = @ \cup {g}]
                  /\ last' = [op |-> "get_glyph", key |-> key,
                              hit |-> FALSE, pre |-> Cursor,
                              ntex |-> Len(textures), bitmap |-> bm,
                              outcome |-> "some", glyph |-> g,
                              buffer |-> buffer, data |-> buff]
                  /\ UNCHANGED <<h_size, v_size, rastVars, status>>

\* Atlas::get_glyph(device, queue, key); base and buffer are the rasterizer's
\* answer for the key (bitmap size at scale 1, pixel buffer) should the call
\* reach the rasterizer.
GetGlyph(key, base, buffer) ==
    /\ status = "running"
    /\ IF contains_key(key)
         THEN CacheHit(key)
         ELSE CacheMiss(key, base, buffer)

\* What the rasterizer can answer to get_glyph(key): it is asked only on a
\* miss.
RasterAnswers(key) ==
    IF contains_key(key) THEN {NoGlyph} ELSE BaseBitmaps \cup {NoGlyph}

\* The pixel buffer of the bitmaps rasterized under Spec: two RGB pixels.
PlainBuffer == [format |-> "Rgb", bytes |-> <<10, 20, 30, 0, 0, 0>>]

\* The line heights a descriptor's font can have.
LineHeightsOf(desc) ==
    IF desc = "monospace" THEN LineHeights ELSE {0}

\* The atlas on its own: no Screen around it, the Screen's fields stay as
\* they are.
Next ==
    \/ \E desc \in FontDescs : \E lh \in LineHeightsOf(desc) :
          LoadFont(desc, lh) /\ UNCHANGED <<screenVars, chatVars>>
    \/ TextureView /\ UNCHANGED <<screenVars, chatVars>>
    \/ \E s \in Scales : SetScaleFactor(s) /\ UNCHANGED <<screenVars, chatVars>>
    \/ \E key \in Keys : \E base \in RasterAnswers(key) :
          GetGlyph(key, base, PlainBuffer) /\ UNCHANGED <<screenVars, chatVars>>

Spec == Init /\ [][Next]_vars

\* The pixel buffers the rasterizer can hand over for a key: it is asked only
\* on a miss.
BuffersFor(key) == IF contains_key(key) THEN {PlainBuffer} ELSE Buffers

\* The bitmap size of the glyphs rasterized under SpecNormalize.
NormalizeBitmap == [width |-> 10, height |-> 20]

\* The atlas fed with every pixel buffer of Buffers: one font of a positive
\* line height, glyphs of one size, any buffer.
NextNormalize ==
    \/ \E lh \in LineHeights \ {0} :
          LoadFont("monospace", lh) /\ UNCHANGED <<screenVars, chatVars>>
    \/ \E key \in Keys : \E buffer \in BuffersFor(key) :
          GetGlyph(key, NormalizeBitmap, buffer) /\ UNCHANGED <<screenVars, chatVars>>

SpecNormalize == Init /\ [][NextNormalize]_vars

\* What the rasterizer answers under SpecPack: every key has a glyph.
PackAnswers(key) == IF contains_key(key) THEN {NoGlyph} ELSE BaseBitmaps

\* The packer fed with one more key than Spec: load_font (of a font of
\* positive line height) and get_glyph in any order, at the scale factor the
\* atlas was created with.
NextPack ==
    \/ \E lh \in LineHeights \ {0} :
          LoadFont("monospace", lh) /\ UNCHANGED <<screenVars, chatVars>>
    \/ \E key \in PackKeys : \E base \in PackAnswers(key) :
          GetGlyph(key, base, PlainBuffer) /\ UNCHANGED <<screenVars, chatVars>>

SpecPack == Init /\ [][NextPack]_vars

(* ------------------------------ the screen ---------------------------- *)

\* std::mem::size_of::<InstanceRaw>(): 17 f32 fields, #[repr(C)]
InstanceRawSize == 68

\* An instance of the zero-initialised instance buffer.
ZeroInstance ==
    [tex_offset |-> <<Div(0, 1), Div(0, 1)>>,
     tex_size |-> <<Div(0, 1), Div(0, 1)>>]

\* Cell::to_instance: the atlas region the cell's instance samples.
to_instance(cell) ==
    [tex_offset |-> <<cell.glyph.uv_left, cell.glyph.uv_top>>,
     tex_size |-> <<cell.glyph.uv_width, cell.glyph.uv_height>>]

\* Screen::instance_data
instance_data == [i \in 1..Len(cells) |-> to_instance(cells[i])]

\* The strings print_string is given: one to MaxStr characters.
Strings == UNION {[1..n -> Keys] : n \in 1..MaxStr}

\* Screen::print_string(row, col, s) is entered: the loop has s to go through.
PrintString(s) ==
    /\ status = "running"
    /\ pending = << >>
    /\ Len(cells) + Len(s) <= MaxCells
    /\ pending' = s
    /\ UNCHANGED <<atlasVars, rastVars, logVars, last, status, cells,
                   instance_buffer, submitted, diffuse_bind_group>>

\* One turn of print_string's loop (and one cells.push of Screen::new):
\* get_glyph(..).unwrap() for the next character, then push the cell.
PrintChar(base) ==
    /\ pending # << >>
    /\ GetGlyph(Head(pending), base, PlainBuffer)
    /\ cells' = IF status' = "running"
                  THEN Append(cells, [glyph |-> last'.glyph])
                  ELSE cells
    /\ pending' = Tail(pending)
    /\ UNCHANGED <<instance_buffer, submitted, diffuse_bind_group>>

\* Screen::update: queue.write_buffer(instance_buffer, 0, instance_data())
Update ==
    /\ status = "running"
    /\ pending = << >>
    /\ instance_buffer' = instance_data
    /\ UNCHANGED <<atlasVars, rastVars, logVars, last, status, cells, pending,
                   submitted, diffuse_bind_group>>

\* Screen::render: when the surface hands out a frame, draw cells.len()
\* instances of the instance buffer and submit; otherwise return the error.
Render(frame) ==
    /\ status = "running"
    /\ pending = << >>
    /\ submitted' =
          IF frame
            THEN [draws |-> [i \in 1..Len(cells) |->
                               IF i <= Len(instance_buffer)
                                 THEN instance_buffer[i] ELSE ZeroInstance],
                  nwrites |-> Len(writes)]
            ELSE submitted
    /\ UNCHANGED <<atlasVars, rastVars, logVars, last, status, cells,
                   instance_buffer, pending, diffuse_bind_group>>

\* Screen::new's atlas.texture_view(&device) and the bind group built from it:
\* the view is of the page get_or_create_texture returned.
BindTexture ==
    /\ pending = << >>
    /\ TextureView
    /\ diffuse_bind_group' = active_texture'
    /\ UNCHANGED <<cells, instance_buffer, pending, submitted>>

\* The Screen around the atlas: Screen::new's calls on the atlas, then
\* print_string, update and render in any order.  The font's glyphs are of
\* one size (NormalizeBitmap).
NextScreen ==
    \/ \E lh \in LineHeights :
          LoadFont("monospace", lh) /\ pending = << >> /\ UNCHANGED <<screenVars, chatVars>>
    \/ BindTexture /\ UNCHANGED chatVars
    \/ \E s \in Strings : PrintString(s) /\ UNCHANGED chatVars
    \/ PrintChar(NormalizeBitmap) /\ UNCHANGED chatVars
    \/ Update /\ UNCHANGED chatVars
    \/ \E frame \in BOOLEAN : Render(frame) /\ UNCHANGED chatVars

SpecScreen == Init /\ [][NextScreen]_vars


(* ------------------------------- the chat ----------------------------- *)

\* A text is a sequence of characters, each a string of length one.
CRLF == <<"\r", "\n">>

\* The lines the chat server sends: two chat messages, a line that is none,
\* a line with text before the prefix, a "!" in the sender and a ":" in the
\* message, a line without message and a line without sender.
LineAB == <<":", "a", "!", "b", ":", "c">>
LineBA == <<":", "b", "!", "a", ":", "d">>
LinePing == <<"a", "b">>
LineGreedy == <<"x", ":", "a", "!", "b", "!", "c", ":", "d", ":", "e">>
LineNoMessage == <<":", "a", "!", "b", ":">>
LineNoSender == <<":", "!", "b", ":", "c">>

\* The texts of the text frames the socket yields.
Texts ==
    {LineAB \o CRLF \o LineBA \o CRLF \o LinePing \o CRLF \o LineAB \o CRLF,
     LinePing \o CRLF \o CRLF \o LineGreedy,
     LineNoMessage \o CRLF \o LineNoSender \o CRLF}

\* str::split("\r\n"), cur being the piece in progress.
RECURSIVE SplitFrom(_, _)
SplitFrom(text, cur) ==
    IF Len(text) = 0 THEN <<cur>>
    ELSE IF Len(text) >= 2 /\ text[1] = "\r" /\ text[2] = "\n"
      THEN <<cur>> \o SplitFrom(SubSeq(text, 3, Len(text)), << >>)
      ELSE SplitFrom(Tail(text), Append(cur, Head(text)))

\* msg.into_text().unwrap().split("\r\n")
split(text) == SplitFrom(text, << >>)

\* Index of the first ":" of s after position i, 0 when there is none.
NextColon(s, i) ==
    LET cs == {k \in (i + 1)..Len(s) : s[k] = ":"}
    IN  IF cs = {} THEN 0 ELSE CHOOSE k \in cs : \A m \in cs : k <= m

\* The "!" positions j at which :([^:]+)![^:]+:(.+) matches s from position i:
\* s[i] is ":", sender and the part after "!" are non-empty and hold no ":",
\* and a character other than "\n" follows the next ":".
Bangs(s, i) ==
    LET c == NextColon(s, i)
    IN  IF s[i] # ":" \/ c = 0 \/ c >= Len(s) THEN {}
        ELSE IF s[c + 1] = "\n" THEN {}
        ELSE {j \in (i + 2)..(c - 2) : s[j] = "!"}

\* (.+): the characters of s from position k up to the first "\n".
UpToNewline(s, k) ==
    LET ns == {m \in k..Len(s) : s[m] = "\n"}
    IN  IF ns = {} THEN SubSeq(s, k, Len(s))
        ELSE SubSeq(s, k, (CHOOSE m \in ns : \A q \in ns : m <= q) - 1)

NoMessage == [matched |-> FALSE, sender |-> << >>, message |-> << >>]

\* A ring buffer that overwrites its oldest element when it is full.
push_overwrite(rb, elem) ==
    IF Len(rb) < RingCap
      THEN [ok |-> TRUE, ring |-> Append(rb, elem)]
      ELSE [ok |-> TRUE, ring |-> Append(Tail(rb), elem)]

\* ChatMessage::parse: the leftmost match of the regex, the sender taken
\* greedily.
parse(s) ==
    LET starts == {i \in 1..Len(s) : Bangs(s, i) # {}}
    IN  IF starts = {} THEN NoMessage
        ELSE LET i == CHOOSE a \in starts : \A b \in starts : a <= b
                 j == CHOOSE a \in Bangs(s, i) : \A b \in Bangs(s, i) : a >= b
             IN  [matched |-> TRUE,
                  sender |-> SubSeq(s, i + 1, j - 1),
                  message |-> UpToNewline(s, NextColon(s, i) + 1)]

\* ChatMessage::string: format!("{}: {}", sender, message)
string(m) == m.sender \o <<":", " ">> \o m.message

\* Producer::push: Err(elem) when the ring buffer is full.
push(rb, elem) ==
    IF Len(rb) < RingCap
      THEN [ok |-> TRUE, ring |-> Append(rb, elem)]
      ELSE [ok |-> FALSE, ring |-> rb]

\* connect_async(..).await? and the three socket.send(..).await?
Connect(ok) ==
    /\ chat_status = "connecting"
    /\ chat_status' = IF ok THEN "reading" ELSE "err"
    /\ UNCHANGED <<received, todo, arrivals, prod, popped>>

\* socket.next() yields a text frame: the for loop is entered.
ReadText(text) ==
    /\ chat_status = "reading"
    /\ todo = << >>
    /\ Len(received) < MaxFrames
    /\ received' = Append(received, [is_text |-> TRUE, text |-> text])
    /\ todo' = split(text)
    /\ UNCHANGED <<chat_status, arrivals, prod, popped>>

\* socket.next() yields a frame that is no text: it is passed over.
ReadOther ==
    /\ chat_status = "reading"
    /\ todo = << >>
    /\ Len(received) < MaxFrames
    /\ received' = Append(received, [is_text |-> FALSE, text |-> << >>])
    /\ UNCHANGED <<chat_status, todo, arrivals, prod, popped>>

\* socket.next() yields Some(Err(e)) (msg? returns it) or None (Ok(())).
ReadEnd(err) ==
    /\ chat_status = "reading"
    /\ todo = << >>
    /\ chat_status' = IF err THEN "err" ELSE "ok"
    /\ UNCHANGED <<received, todo, arrivals, prod, popped>>

\* One turn of the for loop over the frame's payloads.
HandlePayload ==
    /\ chat_status = "reading"
    /\ todo # << >>
    /\ todo' = Tail(todo)
    /\ LET payload == Head(todo)
           m == parse(payload)
           r == push(prod, string(m))
       IN  IF Len(payload) = 0
             THEN UNCHANGED <<arrivals, prod>>
             ELSE /\ arrivals' = Append(arrivals,
                         [payload |-> payload, room |-> RingCap - Len(prod)])
                  /\ prod' = IF m.matched THEN r.ring ELSE prod
    /\ UNCHANGED <<chat_status, received, popped>>

\* The consumer of the ring buffer takes the oldest string out.
Pop ==
    /\ prod # << >>
    /\ popped' = Append(popped, Head(prod))
    /\ prod' = Tail(prod)
    /\ UNCHANGED <<chat_status, received, todo, arrivals>>

\* read_chat and the consumer of its ring buffer.
NextChat ==
    \/ \E ok \in BOOLEAN : Connect(ok) /\ UNCHANGED rendererVars
    \/ \E text \in Texts : ReadText(text) /\ UNCHANGED rendererVars
    \/ ReadOther /\ UNCHANGED rendererVars
    \/ \E err \in BOOLEAN : ReadEnd(err) /\ UNCHANGED rendererVars
    \/ HandlePayload /\ UNCHANGED rendererVars
    \/ Pop /\ UNCHANGED rendererVars

SpecChat == Init /\ [][NextChat]_vars

(* ------------------------------ claims -------------------------------- *)

\* Number of entries of the log seq that are about key k.
CountKey(seq, k) == Cardinality({i \in 1..Len(seq) : seq[i].key = k})

\* The pixel rectangles of two placements share no pixel.
Disjoint(p, q) ==
    \/ p.x + p.width <= q.x
    \/ q.x + q.width <= p.x
    \/ p.y + p.height <= q.y
    \/ q.y + q.height <= p.y

\* The last call was a get_glyph that missed the cache.
LastMiss == last.op = "get_glyph" /\ ~last.hit

\* The last call was a get_glyph answered from the cache.
LastHit == last.op = "get_glyph" /\ last.hit

\* C1: all successful calls of get_glyph(k) have returned one and the same
\* placement record, whatever was called between them.
C1_CacheIdempotence == \A k \in Keys : Cardinality(returned[k]) <= 1

\* C1 witness: key k was placed first, another key was placed after it, the
\* scale factor is no longer the one k was rasterized at, and get_glyph(k)
\* has just been answered again.
C1_Witness ==
    /\ LastHit
    /\ Len(placements) >= 2
    /\ placements[1].key = last.key
    /\ last.glyph.width \notin {b.width * dpr : b \in BaseBitmaps}
    /\ returned[last.key] = {last.glyph}

\* C2: each key is rasterized, packed and uploaded at most once, and there
\* are as many texture writes as cache entries.
C2_AtMostOncePerKey ==
    /\ \A k \in Keys :
          /\ Cardinality({i \in 1..Len(rasterized) : rasterized[i] = k}) <= 1
          /\ CountKey(placements, k) <= 1
          /\ CountKey(writes, k) <= 1
    /\ Len(writes) = Cardinality(DOMAIN glyphs)

\* C2 witness: every key is cached and uploaded, and a cached key has been
\* asked for again.
C2_Witness ==
    /\ LastHit
    /\ DOMAIN glyphs = Keys
    /\ Len(writes) = NumKeys

\* The bitmap of a placement, write or record is no larger than the page.
FitsPage(p) == p.width <= h_size /\ p.height <= v_size

\* C3: the rectangles location_for returned (for bitmaps of positive size, no
\* larger than the page) are pairwise disjoint.
C3_PackingNonOverlap ==
    \A i, j \in 1..Len(placements) :
        (i < j /\ FitsPage(placements[i]) /\ FitsPage(placements[j])
               /\ placements[i].width > 0 /\ placements[i].height > 0
               /\ placements[j].width > 0 /\ placements[j].height > 0)
            => Disjoint(placements[i], placements[j])

\* C4: every cached record's UV rectangle lies in [0,1] x [0,1], and every
\* placement and texture write lies inside the page (for bitmaps no larger
\* than the page, the only ones a page can hold).
C4_UVRange ==
    /\ \A k \in DOMAIN glyphs :
          FitsPage(glyphs[k]) =>
              /\ glyphs[k].uv_left.num >= 0
              /\ glyphs[k].uv_top.num >= 0
              /\ SumAtMostOne(glyphs[k].uv_left, glyphs[k].uv_width)
              /\ SumAtMostOne(glyphs[k].uv_top, glyphs[k].uv_height)
    /\ \A i \in 1..Len(writes) :
          FitsPage(writes[i]) =>
              /\ writes[i].x + writes[i].width <= h_size
              /\ writes[i].y + writes[i].height <= v_size

\* C5: a bitmap that does not fit the rest of the row (h_offset + width >=
\* page width) is placed at the start of a new shelf below the row, inside
\* the page when it is no wider than the page.
C5_HorizontalRollover ==
    \A i \in 1..Len(placements) :
        LET p == placements[i] IN
        p.pre.h_offset + p.width >= p.pre.h_size =>
            /\ p.x = 0
            /\ p.y >= p.pre.v_offset + p.pre.row_height
            /\ p.width <= h_size => p.x + p.width <= h_size

\* The placement asked of cursor c needs a new shelf whose vertical extent
\* exceeds the page.
PageExhausted(c, bm) ==
    /\ c.row_height < bm.height
    /\ c.v_offset + c.row_height + bm.height > c.v_size

\* C6: a miss that finds the active page exhausted does not abort: a new page
\* is created and made active, and the bitmap is placed inside it.
C6_PageExhaustionNotFatal ==
    (LastMiss /\ last.bitmap.ok /\ PageExhausted(last.pre, last.bitmap)) =>
        /\ status = "running"
        /\ Len(textures) = last.ntex + 1
        /\ Len(textures) >= 2
        /\ active_texture = Len(textures) - 1
        /\ writes[Len(writes)].texture = active_texture
        /\ writes[Len(writes)].y + writes[Len(writes)].height <= v_size

\* C7: on a fresh 100 x 100 page, 10x20 is placed at (0,0) with UV
\* (0, 0, 0.1, 0.2), and a following 95x20 is placed at (0,20).
C7_Scenario ==
    (/\ Len(placements) >= 2
     /\ h_size = 100 /\ v_size = 100
     /\ placements[1].pre.h_offset = 0
     /\ placements[1].pre.v_offset = 0
     /\ placements[1].pre.row_height = 0
     /\ placements[1].width = 10 /\ placements[1].height = 20
     /\ placements[2].width = 95 /\ placements[2].height = 20
     /\ placements[2].pre.row_height = 20) =>
        /\ placements[1].x = 0 /\ placements[1].y = 0
        /\ LET g == glyphs[placements[1].key] IN
              /\ FracIs(g.uv_left, 0, 1) /\ FracIs(g.uv_top, 0, 1)
              /\ FracIs(g.uv_width, 1, 10) /\ FracIs(g.uv_height, 2, 10)
        /\ placements[2].x = 0 /\ placements[2].y = 20

\* C8: v_offset never decreases, and while v_offset stays (one shelf)
\* h_offset never decreases.
C8_ShelfMonotone ==
    [][/\ v_offset' >= v_offset
       /\ v_offset' = v_offset => h_offset' >= h_offset]_vars

\* C8 witness: a second shelf is open and bitmaps were placed in both.
C8_Witness ==
    /\ Len(placements) >= 2
    /\ v_offset > 0
    /\ placements[1].y < v_offset
    /\ placements[2].y = v_offset
    /\ h_offset >= placements[1].width + placements[2].width

\* C9: when the rasterizer has no bitmap for the key, get_glyph returns an
\* error to its caller and the process goes on.
C9_RasterFailurePropagated ==
    (LastMiss /\ ~last.bitmap.ok) =>
        /\ status = "running"
        /\ last.outcome = "err"

\* C10: when the rasterizer cannot resolve the descriptor or its metrics,
\* load_font returns an error to its caller and the process goes on.
C10_FontLoadFailurePropagated ==
    (last.op = "load_font" /\ last.desc # "monospace") =>
        /\ status = "running"
        /\ last.outcome = "err"

\* The last call was a miss that uploaded and cached a glyph; last.buffer is
\* the rasterizer's pixel buffer, last.data the bytes given to write_texture.
LastUpload == LastMiss /\ last.outcome = "some"

\* C11: an RGB buffer of whole pixels is uploaded as 4 bytes per pixel, in
\* pixel order, each (r, g, b, max(r, g, b)); [10,20,30, 0,0,0] yields
\* [10,20,30,30, 0,0,0,0].
C11_RgbToRgba ==
    (/\ LastUpload
     /\ last.buffer.format = "Rgb"
     /\ Len(last.buffer.bytes) % 3 = 0) =>
        LET v == last.buffer.bytes
            out == last.data
            n == Len(v) \div 3
        IN  /\ Len(out) = 4 * n
            /\ \A i \in 0..(n - 1) :
                  LET r == v[3 * i + 1]
                      g == v[3 * i + 2]
                      b == v[3 * i + 3]
                      a == out[4 * i + 4]
                  IN  /\ out[4 * i + 1] = r
                      /\ out[4 * i + 2] = g
                      /\ out[4 * i + 3] = b
                      /\ a \in {r, g, b}
                      /\ a >= r /\ a >= g /\ a >= b
            /\ v = <<10, 20, 30, 0, 0, 0>> => out = <<10, 20, 30, 30, 0, 0, 0, 0>>

\* C11 witness: the buffer [10,20,30, 0,0,0] has been converted and uploaded.
C11_Witness ==
    /\ LastUpload
    /\ last.buffer = [format |-> "Rgb", bytes |-> <<10, 20, 30, 0, 0, 0>>]
    /\ last.data = <<10, 20, 30, 30, 0, 0, 0, 0>>

\* C12: no glyph is uploaded or cached from an RGB buffer whose length is not
\* a multiple of 3: the miss ends in an error instead.
C12_MalformedIsError ==
    (/\ LastUpload
     /\ last.buffer.format = "Rgb"
     /\ Len(last.buffer.bytes) % 3 # 0) =>
        /\ last.outcome = "err"
        /\ last.key \notin DOMAIN glyphs
        /\ CountKey(writes, last.key) = 0

\* C13: an RGBA buffer is uploaded as it is: same length, order and values.
C13_RgbaPassthrough ==
    (LastUpload /\ last.buffer.format = "Rgba") =>
        last.data = last.buffer.bytes

\* C13 witness: an RGBA buffer of 7 bytes has been uploaded.
C13_Witness ==
    /\ LastUpload
    /\ last.buffer.format = "Rgba"
    /\ Len(last.buffer.bytes) = 7
    /\ Len(last.data) = 7

\* Widths of the bitmaps rasterized at scale factor s.
WidthsAt(s) == {b.width * s : b \in BaseBitmaps}

\* C14: a change of the scale factor leaves the glyph cache, the packer cursor
\* and the page list as they are, and a glyph rasterized later has the size
\* of the scale factor current at its miss.
C14_ScaleKeepsCache ==
    [][/\ dpr' # dpr =>
            UNCHANGED <<glyphs, h_offset, v_offset, row_height, textures,
                        active_texture>>
       /\ (LastUpload' /\ last' # last) =>
            /\ last'.bitmap.width \in WidthsAt(dpr)
            /\ glyphs'[last'.key].width = last'.bitmap.width]_vars

\* C14 witness: one glyph rasterized at scale 1 is cached, the scale factor
\* is 2 and a second glyph was rasterized at 2.
C14_Witness ==
    /\ Len(placements) = 2
    /\ dpr = 2
    /\ placements[1].width \in WidthsAt(1)
    /\ placements[2].width \in WidthsAt(2)
    /\ glyphs[placements[1].key].width = placements[1].width
    /\ glyphs[placements[2].key].width = placements[2].width

\* C15: load_font sets row_height to the font's line height and leaves the
\* glyph cache, h_offset, v_offset and the page list as they are.
C15_LoadFontFrame ==
    [][\A desc \in FontDescs : \A lh \in LineHeights :
          LoadFont(desc, lh) =>
              /\ UNCHANGED <<glyphs, h_offset, v_offset, textures,
                             active_texture>>
              /\ status' = "running" => row_height' = lh]_vars

\* C15 witness: load_font was called after a glyph was placed: the row is
\* lower than the last bitmap placed and the cursor has advanced.
C15_Witness ==
    /\ status = "running"
    /\ Len(placements) >= 1
    /\ row_height \in LineHeights
    /\ row_height < placements[Len(placements)].height
    /\ h_offset > 0
    /\ v_offset > 0

\* C16: a cached key stays cached with the record it was inserted with, and
\* the cache grows by one key at a time.
C16_InsertOnly ==
    [][/\ \A k \in DOMAIN glyphs :
            k \in DOMAIN glyphs' /\ glyphs'[k] = glyphs[k]
       /\ DOMAIN glyphs' # DOMAIN glyphs =>
            Cardinality(DOMAIN glyphs') = Cardinality(DOMAIN glyphs) + 1]_vars

\* C16 witness: every key is cached and the key inserted first has just been
\* looked up again, at another scale factor than the one it was inserted at.
C16_Witness ==
    /\ DOMAIN glyphs = Keys
    /\ LastHit
    /\ last.key = placements[1].key
    /\ last.glyph = glyphs[last.key]
    /\ last.glyph.width \notin WidthsAt(dpr)

\* C19: Atlas::new creates no page; the first miss or texture_view creates
\* the one page; while there is a page, active_texture indexes it; before
\* there is one, nothing is cached or uploaded.
C19_LazyPages ==
    /\ textures = << >>
    /\ [][/\ (Len(textures) = 0 /\ Len(textures') > 0) =>
               /\ Len(textures') = 1
               /\ TextureView \/ (LastUpload' /\ last' # last)
          /\ (TextureView \/ (LastUpload' /\ last' # last)) =>
               Len(textures') >= 1]_vars
    /\ [](Len(textures) > 0 => active_texture \in 0..(Len(textures) - 1))
    /\ [](Len(textures) = 0 => (glyphs = << >> /\ writes = << >>))

\* C19 witness: the page was created by texture_view before the first miss,
\* and the miss uploaded into it.
C19_Witness ==
    /\ LastUpload
    /\ Len(placements) = 1
    /\ last.ntex = 1
    /\ Len(textures) = 1
    /\ writes[1].texture = active_texture

\* C20: a get_glyph answered from the cache calls neither the rasterizer nor
\* location_for, creates no page, writes no texture and leaves the cache,
\* the cursor and the page list as they are.
C20_HitNoSideEffects ==
    [][(LastHit' /\ last' # last) =>
          UNCHANGED <<glyphs, textures, active_texture, v_offset, h_offset,
                      row_height, h_size, v_size, dpr, loaded, rasterized,
                      placements, writes>>]_vars

\* C20 witness: one glyph was uploaded and a lookup of it was answered from
\* the cache; there is still one write, one placement and one rasterization.
C20_Witness ==
    /\ LastHit
    /\ Len(writes) = 1
    /\ Len(placements) = 1
    /\ Len(rasterized) = 1
    /\ status = "running"

\* The texture write w uploads the atlas region the instance samples.
Uploads(w, inst) ==
    /\ FracIs(inst.tex_offset[1], w.x, h_size)
    /\ FracIs(inst.tex_offset[2], w.y, v_size)
    /\ FracIs(inst.tex_size[1], w.width, h_size)
    /\ FracIs(inst.tex_size[2], w.height, v_size)

\* C18: every instance the last submission draws that samples an atlas
\* region has that region's texture write among the writes issued on the
\* queue before the submission.
C18_WriteBeforeDraw ==
    \A i \in 1..Len(submitted.draws) :
        submitted.draws[i] # ZeroInstance =>
            \E j \in 1..submitted.nwrites :
                Uploads(writes[j], submitted.draws[i])

\* C18 witness: a submission drew MaxCells cells of two different glyphs,
\* all written to the instance buffer; two texture writes preceded it.
C18_Witness ==
    /\ Len(submitted.draws) = MaxCells
    /\ submitted.nwrites = 2
    /\ \A i \in 1..MaxCells : submitted.draws[i] # ZeroInstance
    /\ submitted.draws[1] # submitted.draws[2]

\* C21: an accepted request taller than row_height advances v_offset by the
\* row_height it found and sets row_height to the requested height; a request
\* no taller than row_height leaves both as they are.
C21_ShelfGrowth ==
    /\ \A i \in 1..Len(placements) :
          LET p == placements[i] IN
          IF p.pre.row_height < p.height
            THEN /\ p.post.v_offset = p.pre.v_offset + p.pre.row_height
                 /\ p.post.row_height = p.height
            ELSE /\ p.post.v_offset = p.pre.v_offset
                 /\ p.post.row_height = p.pre.row_height
    /\ Len(placements) > 0 =>
          v_offset = placements[Len(placements)].post.v_offset

\* C21 witness: one request opened a shelf below a shelf of positive height
\* and a later, lower one stayed in it.
C21_Witness ==
    /\ Len(placements) = 2
    /\ placements[1].pre.row_height > 0
    /\ placements[1].pre.row_height < placements[1].height
    /\ placements[1].post.v_offset = placements[1].pre.row_height
    /\ placements[2].height < placements[2].pre.row_height
    /\ placements[2].post.v_offset = placements[1].post.v_offset

\* C22: a request with h_offset + width < h_size is placed at (h_offset,
\* v_offset after any shelf growth) and advances h_offset by width; a request
\* with h_offset + width >= h_size, filling the row exactly included, does
\* not advance h_offset.
C22_InShelfPlacement ==
    \A i \in 1..Len(placements) :
        LET p == placements[i] IN
        /\ p.x = p.pre.h_offset
        /\ p.y = p.post.v_offset
        /\ IF p.pre.h_offset + p.width < p.pre.h_size
             THEN p.post.h_offset = p.pre.h_offset + p.width
             ELSE p.post.h_offset = p.pre.h_offset

\* C22 witness: a bitmap as wide as the page was requested first and did not
\* advance the cursor; the next, narrower one did.
C22_Witness ==
    /\ Len(placements) = 2
    /\ placements[1].width = h_size
    /\ placements[1].post.h_offset = 0
    /\ placements[2].x = 0
    /\ placements[2].post.h_offset = placements[2].width

\* C23: placements are made in miss order from left to right and from top to
\* bottom: an earlier placement is higher up than a later one, or at the same
\* y and not to the right of it; and a cached record stays at the place its
\* placement returned.
C23_PlacementOrder ==
    /\ \A i, j \in 1..Len(placements) :
          i < j =>
              \/ placements[i].y < placements[j].y
              \/ /\ placements[i].y = placements[j].y
                 /\ placements[i].x <= placements[j].x
    /\ \A i \in 1..Len(placements) :
          /\ rasterized[i] = placements[i].key
          /\ placements[i].key \in DOMAIN glyphs
          /\ FracIs(glyphs[placements[i].key].uv_left, placements[i].x, h_size)
          /\ FracIs(glyphs[placements[i].key].uv_top, placements[i].y, v_size)

\* C23 witness: three placements, the first two side by side in one shelf,
\* the third in a shelf below them.
C23_Witness ==
    /\ Len(placements) = 3
    /\ placements[1].y = placements[2].y
    /\ placements[1].x < placements[2].x
    /\ placements[2].y < placements[3].y

\* C24: the i-th texture write has the origin location_for returned for the
\* i-th bitmap and the bitmap's extent, and the record cached for its key has
\* that rectangle divided by the page dimensions as its UV rectangle.
C24_RecordMatchesUpload ==
    /\ Len(writes) = Len(placements)
    /\ \A i \in 1..Len(placements) :
          LET p == placements[i]
              w == writes[i]
              g == glyphs[p.key]
          IN  /\ w.key = p.key
              /\ w.x = p.x /\ w.y = p.y
              /\ w.width = p.width /\ w.height = p.height
              /\ g.uv_left = Div(p.x, h_size)
              /\ g.uv_top = Div(p.y, v_size)
              /\ g.uv_width = Div(p.width, h_size)
              /\ g.uv_height = Div(p.height, v_size)
              /\ g.width = p.width /\ g.height = p.height

\* C24 witness: a bitmap was written at an origin off both axes.
C24_Witness ==
    /\ Len(writes) = 2
    /\ writes[2].x > 0
    /\ writes[2].y > 0
    /\ writes[2].x # writes[2].y
    /\ glyphs[writes[2].key].uv_left.num > 0
    /\ glyphs[writes[2].key].uv_top.num > 0

\* The shelf the request would be placed in, found by cursor c, cannot hold
\* the bitmap inside the page: no horizontal room is left in it, or it would
\* reach below the page.
Unplaceable(c, bm) ==
    LET vo == IF c.row_height < bm.height
                THEN c.v_offset + c.row_height ELSE c.v_offset
    IN  \/ c.h_offset + bm.width > c.h_size
        \/ vo + bm.height > c.v_size

\* C25: a miss whose bitmap (no larger than the page) the packer cannot place
\* inside the page ends in location_for's panic; no coordinates are returned
\* for it.
C25_AbortOnUnplaceable ==
    (/\ LastMiss
     /\ last.bitmap.ok
     /\ last.bitmap.width <= last.pre.h_size
     /\ last.bitmap.height <= last.pre.v_size
     /\ Unplaceable(last.pre, last.bitmap)) =>
        /\ last.outcome = "panic_location_for"
        /\ status = "panicked"

\* C26: a miss that needs a taller shelf is placed whenever the new shelf
\* fits the page (v_offset + row_height + height <= v_size), and
\* location_for panics only when it does not.
C26_NoPrematureAbort ==
    (LastMiss /\ last.bitmap.ok) =>
        /\ (/\ last.pre.row_height < last.bitmap.height
            /\ last.pre.v_offset + last.pre.row_height + last.bitmap.height
                  <= last.pre.v_size)
              => last.outcome = "some"
        /\ last.outcome = "panic_location_for" =>
              last.pre.v_offset + last.pre.row_height + last.bitmap.height
                  > last.pre.v_size

\* C27: row_height is at least the height of every bitmap placed at the
\* current v_offset, whatever the order of load_font and get_glyph.
C27_ShelfHeightCovers ==
    \A i \in 1..Len(placements) :
        placements[i].y = v_offset => row_height >= placements[i].height

\* C28: the atlas holds at most one texture page and active_texture is 0;
\* every texture write goes to page 0.
C28_SinglePage ==
    /\ Len(textures) <= 1
    /\ active_texture = 0
    /\ \A i \in 1..Len(writes) : writes[i].texture = 0

\* C28 witness: every key was uploaded, the last miss found the page already
\* there, and there is still one page.
C28_Witness ==
    /\ Len(textures) = 1
    /\ Len(writes) = NumKeys
    /\ Len(placements) = NumKeys
    /\ placements[1].key \in DOMAIN glyphs
    /\ LastUpload
    /\ last.ntex = 1
    /\ writes[1].texture = writes[NumKeys].texture

\* C29: once the bind group is built, the page it binds exists, every texture
\* write went and goes to that page, and every cached glyph's rectangle was
\* written to it.
C29_BoundIsUploadTarget ==
    diffuse_bind_group # NoTexture =>
        /\ diffuse_bind_group \in 0..(Len(textures) - 1)
        /\ \A i \in 1..Len(writes) : writes[i].texture = diffuse_bind_group
        /\ \A k \in DOMAIN glyphs :
              \E i \in 1..Len(writes) :
                  /\ writes[i].key = k
                  /\ writes[i].texture = diffuse_bind_group
                  /\ FracIs(glyphs[k].uv_left, writes[i].x, h_size)
                  /\ FracIs(glyphs[k].uv_top, writes[i].y, v_size)

\* C29 witness: the bind group was built before the first miss, two glyphs
\* were uploaded after it and a submission has drawn them.
C29_Witness ==
    /\ diffuse_bind_group = 0
    /\ Len(placements) = 2
    /\ placements[1].pre.h_offset = 0
    /\ Len(writes) = 2
    /\ submitted.nwrites = 2
    /\ Len(submitted.draws) >= 2
    /\ submitted.draws[1] # ZeroInstance
    /\ submitted.draws[2] # ZeroInstance

\* The placement advanced the horizontal cursor.
Advanced(p) == p.pre.h_offset + p.width < p.pre.h_size

\* Sum of the widths of the placements of seq that advanced the cursor.
RECURSIVE SumAdvanced(_)
SumAdvanced(seq) ==
    IF Len(seq) = 0 THEN 0
    ELSE (IF Advanced(Head(seq)) THEN Head(seq).width ELSE 0)
         + SumAdvanced(Tail(seq))

\* C30: h_offset < h_size; h_offset is the sum of the widths of the
\* placements that advanced it; every placement found the h_offset the one
\* before left and left one no lower, a new shelf included.
C30_HorizontalCursorBound ==
    /\ h_offset < h_size
    /\ h_offset = SumAdvanced(placements)
    /\ \A i \in 1..Len(placements) :
          /\ placements[i].post.h_offset >= placements[i].pre.h_offset
          /\ placements[i].pre.h_offset =
                IF i = 1 THEN 0 ELSE placements[i - 1].post.h_offset
    /\ Len(placements) > 0 =>
          h_offset = placements[Len(placements)].post.h_offset

\* C30 witness: three placements, the first two advanced the cursor, the
\* third opened a new shelf and found no room right of them.
C30_Witness ==
    /\ Len(placements) = 3
    /\ Advanced(placements[1])
    /\ Advanced(placements[2])
    /\ ~Advanced(placements[3])
    /\ placements[3].y > placements[2].y
    /\ h_offset = placements[1].width + placements[2].width

\* C31: a get_glyph that returns, returns Some(record) with the key cached
\* as that record; every other end of the call is a panic; None is never
\* returned.
C31_NeverNone ==
    last.op = "get_glyph" =>
        /\ last.outcome # "none"
        /\ status = "running" =>
              /\ last.outcome = "some"
              /\ last.key \in DOMAIN glyphs
              /\ glyphs[last.key] = last.glyph
              /\ last.glyph \in returned[last.key]
        /\ status = "panicked" =>
              last.outcome \in {"panic_rasterize", "panic_location_for"}

\* C31 witness: at scale factor 2, a lookup of the key cached second has
\* returned its record from the cache while every key is cached.
C31_Witness ==
    /\ LastHit
    /\ dpr = 2
    /\ DOMAIN glyphs = Keys
    /\ Len(placements) = NumKeys
    /\ last.key = placements[NumKeys].key
    /\ last.outcome = "some"
    /\ glyphs[last.key] = last.glyph

\* C32: when the rasterizer fails for a key, the key is not cached, the
\* cursor is as the call found it, the call has created no page, and no
\* placement or texture write was made for the key.
C32_FailedRasterizationChangesNothing ==
    (LastMiss /\ last.outcome = "panic_rasterize") =>
        /\ last.key \notin DOMAIN glyphs
        /\ Cursor = last.pre
        /\ Len(textures) = last.ntex
        /\ CountKey(placements, last.key) = 0
        /\ CountKey(writes, last.key) = 0
        /\ returned[last.key] = {}

\* C32 witness: the rasterizer failed for a key of the loaded font before
\* any page existed, after nothing else had been placed.
C32_Witness ==
    /\ LastMiss
    /\ last.outcome = "panic_rasterize"
    /\ loaded
    /\ Len(textures) = 0
    /\ placements = << >>
    /\ status = "panicked"

\* C33: the instance data Screen::update has written is no longer than the
\* instance buffer: number of instances times the size of InstanceRaw is at
\* most InstanceBufferSize.
C33_InstanceBufferCapacity ==
    Len(instance_buffer) * InstanceRawSize <= InstanceBufferSize

\* The non-empty elements of a sequence of payloads, in order.
RECURSIVE NonEmpty(_)
NonEmpty(ps) ==
    IF Len(ps) = 0 THEN << >>
    ELSE (IF Len(Head(ps)) = 0 THEN << >> ELSE <<Head(ps)>>)
         \o NonEmpty(Tail(ps))

\* The payloads of the text frames of fs, frame after frame.
RECURSIVE PayloadsOf(_)
PayloadsOf(fs) ==
    IF Len(fs) = 0 THEN << >>
    ELSE (IF Head(fs).is_text THEN split(Head(fs).text) ELSE << >>)
         \o PayloadsOf(Tail(fs))

\* The strings the arrivals as put into the ring buffer: "sender: message"
\* for each that parses and found room.
RECURSIVE Kept(_)
Kept(as) ==
    IF Len(as) = 0 THEN << >>
    ELSE (IF parse(Head(as).payload).matched /\ Head(as).room > 0
            THEN <<string(parse(Head(as).payload))>> ELSE << >>)
         \o Kept(Tail(as))

\* C34: the payloads gone through and those still to go are the non-empty
\* payloads of the frames received, in frame order and CRLF order; what went
\* into the ring buffer is, in that order, one "sender: message" per payload
\* that parsed and found room, nothing for the others; and the loop is
\* neither left nor failed while a frame has payloads to go.
C34_ChatFeedOrder ==
    /\ [i \in 1..Len(arrivals) |-> arrivals[i].payload] \o NonEmpty(todo)
          = NonEmpty(PayloadsOf(received))
    /\ popped \o prod = Kept(arrivals)
    /\ Len(prod) <= RingCap
    /\ todo # << >> => chat_status = "reading"

\* C34 witness: a chat message found the ring buffer full and was dropped, a
\* line that is no chat message followed, and a later message of the same
\* frame was pushed and is in the ring buffer.
C34_Witness ==
    \E i, j, k \in 1..Len(arrivals) :
        /\ i < j /\ j < k
        /\ parse(arrivals[i].payload).matched /\ arrivals[i].room = 0
        /\ ~parse(arrivals[j].payload).matched
        /\ parse(arrivals[k].payload).matched /\ arrivals[k].room > 0
        /\ Len(received) = 1
        /\ prod # << >>
        /\ prod[Len(prod)] = string(parse(arrivals[k].payload))

=============================================================================
